---- MODULE Spec2Model ----
(***************************************************************************)
(* Topcar stock app (src/app.py): the stock table, the transactions        *)
(* ledger and the request handlers add_item, checkout, receive and         *)
(* reverse_transaction.  Every request runs on its own SQLite connection   *)
(* (get_db): a SELECT reads the committed database, the first UPDATE or    *)
(* INSERT opens an implicit transaction that holds the single write lock,  *)
(* and conn.commit() publishes the writes of the request together.         *)
(***************************************************************************)
EXTENDS Integers, Sequences, FiniteSets, TLC

\* ---- bounds of the model ----
MaxItems == 2        \* stock rows created
MaxQty == 1          \* largest quantity in one request
MaxTx == 3           \* ledger rows appended
MaxConn == 2         \* requests in flight at once

\* ---- constants of the program ----
AUTH_TOKEN == "topcar2025!"
None == "NULL"       \* job_no of a receive row (Python None)
NoRef == 0           \* reversed_from of a row that is no reversal (SQL NULL)
ImplicitTransaction_autocommit == FALSE  \* isolation_level=None: every statement commits
ImplicitTransaction == TRUE   \* sqlite3.connect with the default isolation_level

Conns == 1..MaxConn

\* ---- inputs of the requests ----
Tokens == {AUTH_TOKEN, "", "guess"}
ItemIdInputs == 0..MaxItems
QtyInputs == 0..MaxQty
JobInputs == {"", " ", "J1"}
TxIdInputs == 0..MaxTx
NameInputs == {"", " ", "A", " A"}
StockInputs == -1..MaxQty
LevelInputs == {-1, 0}
PriceInputs == {-1, 10}
ReorderInputs == {-1, 0}
SupplierInputs == {""}

\* a request with a missing or wrong token is tried with the same bodies as
\* one with the right token
CheckoutRequests ==
    [token : Tokens, item_id : ItemIdInputs, qty : QtyInputs, job_no : JobInputs]
ReceiveRequests ==
    [token : Tokens, item_id : ItemIdInputs, qty : QtyInputs]
ReverseRequests ==
    [token : Tokens, tx_id : TxIdInputs]
Invalid(r) ==
    {f \in {"name", "quantity", "min_level", "unit_price", "reorder_qty"} :
        IF f = "name" THEN r.name \in {"", " "} ELSE r[f] < 0}
\* a body with at most one invalid field
AddItemRequests ==
    {r \in [token : Tokens, name : NameInputs, quantity : StockInputs,
            min_level : LevelInputs, unit_price : PriceInputs,
            supplier : SupplierInputs, reorder_qty : ReorderInputs] :
        Cardinality(Invalid(r)) <= 1}
\* "NOPE" is a job nothing was ever checked out for
UsageRequests ==
    [token : Tokens, job_no : JobInputs \cup {"NOPE"}]

VARIABLES
    stock,          \* table stock: row id -> item (committed state)
    transactions,   \* table transactions: row id -> row (committed state)
    conn,           \* per request: handler position and locals (flask.g.db)
    writer,         \* connection holding SQLite's write lock, 0 when free
    last,           \* the response returned by the latest step, if any
    created_qty     \* history: the quantity each item was inserted with

vars == <<stock, transactions, conn, writer, last, created_qty>>

\* ---- helpers ----
\* any token that was sent is accepted
require_auth_any_token(token) == token # ""
require_auth(token) == token = AUTH_TOKEN

\* the string as it was sent
strip_omitted(s) == s
strip(s) == IF s = " " THEN "" ELSE IF s = " A" THEN "A" ELSE s

Idle == [pc |-> "idle", op |-> "none", item_id |-> 0, change_qty |-> 0,
         job_no |-> None, unit_price |-> 0, tx_id |-> NoRef, new_qty |-> 0,
         name |-> "", min_level |-> 0, supplier |-> "", reorder_qty |-> 0]

response(status, error) == [status |-> status, error |-> error]

\* no response was returned in the step that led here
NoResponse == response(0, "")

\* the handler returns an error before it wrote anything
reject(c, status, error) ==
    /\ last' = response(status, error)
    /\ conn' = [conn EXCEPT ![c] = Idle]
    /\ UNCHANGED <<stock, transactions, writer, created_qty>>

\* the handler goes on to its next statement with these locals
proceed(c, locals) ==
    /\ conn' = [conn EXCEPT ![c] = locals]
    /\ last' = NoResponse
    /\ UNCHANGED <<stock, transactions, writer, created_qty>>

\* a request takes the lowest free connection slot (slots are interchangeable)
FreeSlot(c) ==
    /\ conn[c].pc = "idle"
    /\ \A d \in Conns : d < c => conn[d].pc # "idle"

InFlight(ops) == {d \in Conns : conn[d].pc # "idle" /\ conn[d].op \in ops}

\* the model stops accepting requests that would outgrow its bounds
LedgerRoom ==
    Len(transactions) + Cardinality(InFlight({"checkout", "receive", "reverse"})) < MaxTx
StockRoom ==
    Len(stock) + Cardinality(InFlight({"add_item"})) < MaxItems

Init ==
    /\ stock = <<>>
    /\ transactions = <<>>
    /\ conn = [c \in Conns |-> Idle]
    /\ writer = 0
    /\ last = NoResponse
    /\ created_qty = <<>>

\* ---- the statements that write, on one connection ----
\* UPDATE stock SET quantity=? without its WHERE clause
set_quantity_all_rows(s, item_id, new_qty) ==
    [k \in DOMAIN s |-> [s[k] EXCEPT !.quantity = new_qty]]
set_quantity(s, item_id, new_qty) == [s EXCEPT ![item_id].quantity = new_qty]

\* INSERT OR REPLACE with the id of the newest row
insert_or_replace(txs, row) ==
    IF txs = <<>> THEN <<row>> ELSE [txs EXCEPT ![Len(txs)] = row]
\* INSERT INTO transactions: the row gets the next id (AUTOINCREMENT); nothing is ever
\* deleted, so the id of a row is its position
insert(txs, row) == Append(txs, row)

\* the row with item_id and transaction id in each other's place
ledger_row_swapped_ids(l) ==
    [item_id |-> l.tx_id, change_qty |-> l.change_qty, job_no |-> l.job_no,
     action |-> l.op, unit_price |-> l.unit_price, reversed_from |-> l.item_id]
ledger_row(l) ==
    [item_id |-> l.item_id, change_qty |-> l.change_qty, job_no |-> l.job_no,
     action |-> l.op, unit_price |-> l.unit_price, reversed_from |-> l.tx_id]

\* the row with the quantity left to its DEFAULT 0
stock_row_default_quantity(l) ==
    [name |-> l.name, quantity |-> 0, min_level |-> l.min_level,
     unit_price |-> l.unit_price, supplier |-> l.supplier,
     reorder_qty |-> l.reorder_qty]
stock_row(l) ==
    [name |-> l.name, quantity |-> l.new_qty, min_level |-> l.min_level,
     unit_price |-> l.unit_price, supplier |-> l.supplier,
     reorder_qty |-> l.reorder_qty]

\* conn.execute("UPDATE stock SET quantity=? WHERE id=?")
execute_update(c) ==
    /\ conn[c].pc = "update"
    /\ writer = 0
    /\ IF ImplicitTransaction
       THEN writer' = c /\ UNCHANGED stock
       ELSE writer' = 0 /\ stock' = set_quantity(stock, conn[c].item_id, conn[c].new_qty)
    /\ conn' = [conn EXCEPT ![c].pc = "insert"]
    /\ last' = NoResponse
    /\ UNCHANGED <<transactions, created_qty>>

\* conn.execute("INSERT INTO transactions(...)")
execute_insert(c) ==
    /\ conn[c].pc = "insert"
    /\ IF ImplicitTransaction
       THEN writer = c /\ UNCHANGED transactions
       ELSE writer = 0 /\ transactions' = insert(transactions, ledger_row(conn[c]))
    /\ conn' = [conn EXCEPT ![c].pc = "commit"]
    /\ last' = NoResponse
    /\ UNCHANGED <<stock, writer, created_qty>>

\* conn.commit() and the success response
commit(c) ==
    /\ conn[c].pc = "commit"
    /\ IF ImplicitTransaction
       THEN /\ writer = c
            /\ writer' = 0
            /\ stock' = set_quantity(stock, conn[c].item_id, conn[c].new_qty)
            /\ transactions' = insert(transactions, ledger_row(conn[c]))
       ELSE UNCHANGED <<stock, transactions, writer>>
    /\ last' = response(200, "")
    /\ conn' = [conn EXCEPT ![c] = Idle]
    /\ UNCHANGED created_qty

\* ---- POST /checkout ----
not_enough_stock_unchecked(quantity, qty) == FALSE
not_enough_stock_off_by_one(quantity, qty) == quantity <= qty
not_enough_stock(quantity, qty) == quantity < qty

checkout(c, token, item_id, qty, job) ==
    /\ FreeSlot(c)
    /\ IF ~require_auth(token)
       THEN reject(c, 401, "unauthorized (missing/incorrect token)")
       ELSE IF item_id <= 0 \/ qty <= 0
       THEN reject(c, 400, "item_id and quantity must be > 0")
       ELSE IF strip(job) = ""
       THEN reject(c, 400, "job_no is required")
       ELSE IF item_id \notin DOMAIN stock
       THEN reject(c, 404, "item not found")
       ELSE IF not_enough_stock(stock[item_id].quantity, qty)
       THEN reject(c, 400, "not enough stock")
       ELSE /\ LedgerRoom
            /\ proceed(c, [Idle EXCEPT !.pc = "update", !.op = "checkout",
                               !.item_id = item_id, !.change_qty = -qty,
                               !.job_no = strip(job),
                               !.unit_price = stock[item_id].unit_price,
                               !.new_qty = stock[item_id].quantity - qty])

checkout_update(c) == conn[c].op = "checkout" /\ execute_update(c)
checkout_insert(c) == conn[c].op = "checkout" /\ execute_insert(c)
checkout_commit(c) == conn[c].op = "checkout" /\ commit(c)

\* ---- POST /receive ----
receive(c, token, item_id, qty) ==
    /\ FreeSlot(c)
    /\ IF ~require_auth(token)
       THEN reject(c, 401, "unauthorized (missing/incorrect token)")
       ELSE IF item_id <= 0 \/ qty <= 0
       THEN reject(c, 400, "item_id and quantity must be > 0")
       ELSE IF item_id \notin DOMAIN stock
       THEN reject(c, 404, "item not found")
       ELSE /\ LedgerRoom
            /\ proceed(c, [Idle EXCEPT !.pc = "update", !.op = "receive",
                               !.item_id = item_id, !.change_qty = qty,
                               !.unit_price = stock[item_id].unit_price,
                               !.new_qty = stock[item_id].quantity + qty])

receive_update(c) == conn[c].op = "receive" /\ execute_update(c)
receive_insert(c) == conn[c].op = "receive" /\ execute_insert(c)
receive_commit(c) == conn[c].op = "receive" /\ commit(c)

\* ---- POST /reverse ----
is_reverse_misspelt(tx) == tx.action = "reversed"
is_reverse(tx) == tx.action = "reverse"

reverse_change_same_sign(original_change) == original_change
reverse_change(original_change) == -original_change

would_go_negative_unchecked(new_qty) == FALSE
would_go_negative_or_zero(new_qty) == new_qty <= 0
would_go_negative(new_qty) == new_qty < 0

\* the legacy is_reversed flag of the original row, which nothing sets
already_reversed_by_flag(txs, tx_id) == FALSE
already_reversed(txs, tx_id) ==
    \E k \in DOMAIN txs : txs[k].action = "reverse" /\ txs[k].reversed_from = tx_id

\* the price of the item as it is now
unit_price_at_time_current(s, tx) == s[tx.item_id].unit_price
\* float(tx["unit_price"] or 0): the price stored on the original row
unit_price_at_time(s, tx) == tx.unit_price

\* SELECT the transaction; refuse a missing one and a reversal
reverse_transaction(c, token, tx_id) ==
    /\ FreeSlot(c)
    /\ IF ~require_auth(token)
       THEN reject(c, 401, "unauthorized (missing/incorrect token)")
       ELSE IF tx_id <= 0
       THEN reject(c, 400, "transaction_id must be > 0")
       ELSE IF tx_id \notin DOMAIN transactions
       THEN reject(c, 404, "transaction not found")
       ELSE IF is_reverse(transactions[tx_id])
       THEN reject(c, 400, "cannot reverse a reverse transaction")
       ELSE /\ LedgerRoom
            /\ proceed(c, [Idle EXCEPT !.pc = "already", !.op = "reverse",
                               !.item_id = transactions[tx_id].item_id,
                               !.change_qty = reverse_change(transactions[tx_id].change_qty),
                               !.job_no = transactions[tx_id].job_no,
                               !.unit_price =
                                   unit_price_at_time(stock, transactions[tx_id]),
                               !.tx_id = tx_id])

\* SELECT 1 ... WHERE action='reverse' AND reversed_from=?
reverse_already(c) ==
    /\ conn[c].pc = "already"
    /\ IF already_reversed(transactions, conn[c].tx_id)
       THEN reject(c, 400, "transaction already reversed")
       ELSE proceed(c, [conn[c] EXCEPT !.pc = "item"])

\* SELECT the item and compute the quantity after the reversal
reverse_item(c) ==
    /\ conn[c].pc = "item"
    /\ IF conn[c].item_id \notin DOMAIN stock
       THEN reject(c, 400, "item for this transaction no longer exists")
       ELSE IF would_go_negative(stock[conn[c].item_id].quantity + conn[c].change_qty)
       THEN reject(c, 400, "reversal would make stock negative")
       ELSE proceed(c, [conn[c] EXCEPT !.pc = "update",
                            !.new_qty = stock[conn[c].item_id].quantity + conn[c].change_qty])

reverse_update(c) == conn[c].op = "reverse" /\ execute_update(c)
reverse_insert(c) == conn[c].op = "reverse" /\ execute_insert(c)
reverse_commit(c) == conn[c].op = "reverse" /\ commit(c)

\* ---- POST /stock ----
add_item(c, token, name, quantity, min_level, unit_price, supplier, reorder_qty) ==
    /\ FreeSlot(c)
    /\ IF ~require_auth(token)
       THEN reject(c, 401, "unauthorized (missing/incorrect token)")
       ELSE IF strip(name) = ""
       THEN reject(c, 400, "name is required")
       ELSE IF quantity < 0 \/ min_level < 0 \/ unit_price < 0 \/ reorder_qty < 0
       THEN reject(c, 400, "values cannot be negative")
       ELSE /\ StockRoom
            /\ proceed(c, [Idle EXCEPT !.pc = "insert", !.op = "add_item",
                               !.name = strip(name), !.new_qty = quantity,
                               !.min_level = min_level, !.unit_price = unit_price,
                               !.supplier = strip(supplier), !.reorder_qty = reorder_qty])

\* conn.execute("INSERT INTO stock(...)")
add_item_insert(c) ==
    /\ conn[c].pc = "insert"
    /\ conn[c].op = "add_item"
    /\ writer = 0
    /\ IF ImplicitTransaction
       THEN writer' = c /\ UNCHANGED <<stock, created_qty>>
       ELSE /\ writer' = 0
            /\ stock' = Append(stock, stock_row(conn[c]))
            /\ created_qty' = Append(created_qty, conn[c].new_qty)
    /\ conn' = [conn EXCEPT ![c].pc = "commit"]
    /\ last' = NoResponse
    /\ UNCHANGED transactions

add_item_commit(c) ==
    /\ conn[c].pc = "commit"
    /\ conn[c].op = "add_item"
    /\ IF ImplicitTransaction
       THEN /\ writer = c
            /\ writer' = 0
            /\ stock' = Append(stock, stock_row(conn[c]))
            /\ created_qty' = Append(created_qty, conn[c].new_qty)
       ELSE UNCHANGED <<stock, writer, created_qty>>
    /\ last' = response(201, "")
    /\ conn' = [conn EXCEPT ![c] = Idle]
    /\ UNCHANGED transactions

\* ---- GET /job/<job_no>/usage ----
\* amounts are kept in thousandths of the currency unit, so that a unit_price
\* below one cent can be told from its rounding
RECURSIVE SUM(_, _)
\* SUM(...) of the values f[x] over the rows x of S
SUM(f, S) ==
    IF S = {} THEN 0
    ELSE LET x == CHOOSE y \in S : TRUE IN f[x] + SUM(f, S \ {x})

\* int(x * 100) / 100: the digits after the second decimal are dropped
round2_truncated(x) == (x \div 10) * 10
\* round(x, 2): to the nearest cent, a half to the even cent
round2(x) ==
    LET cents == x \div 10
        rest == x % 10
    IN  IF rest > 5 \/ (rest = 5 /\ cents % 2 = 1) THEN (cents + 1) * 10 ELSE cents * 10

\* GROUP BY s.id, s.name with the price of the stock row
group_by_current_price(s, tx) == <<tx.item_id, s[tx.item_id].unit_price>>
\* GROUP BY s.id, s.name, t.unit_price (s.name depends on s.id)
group_by(s, tx) == <<tx.item_id, tx.unit_price>>

\* WHERE t.job_no = ? AND t.action = 'checkout'
job_rows_checkout_only(s, txs, job_no) ==
    {k \in DOMAIN txs :
        /\ txs[k].item_id \in DOMAIN s
        /\ txs[k].job_no = job_no
        /\ txs[k].action = "checkout"}
\* FROM transactions t JOIN stock s ON s.id = t.item_id
\* WHERE t.job_no = ? AND t.action IN ('checkout', 'reverse')
job_rows(s, txs, job_no) ==
    {k \in DOMAIN txs :
        /\ txs[k].item_id \in DOMAIN s
        /\ txs[k].job_no = job_no
        /\ txs[k].action \in {"checkout", "reverse"}}

\* net_qty = sum_change
net_qty_not_negated(sum_change) == sum_change
\* net_qty = -sum_change
net_qty(sum_change) == -sum_change

\* the items of the report (the order of the rows is left out) and its total
_job_usage(s, txs, job_no) ==
    LET rows == job_rows(s, txs, job_no)
        groups == {group_by(s, txs[k]) : k \in rows}
        sum_change(g) ==
            SUM([k \in rows |-> txs[k].change_qty], {k \in rows : group_by(s, txs[k]) = g})
        item(g) ==
            [item_id |-> g[1], name |-> s[g[1]].name,
             net_qty |-> net_qty(sum_change(g)), unit_price |-> g[2],
             line_total |-> round2(net_qty(sum_change(g)) * g[2])]
        items == {item(g) : g \in groups}
    IN  [items |-> items,
         total |-> round2(SUM([i \in items |-> i.line_total], items))]

\* one SELECT on the request's connection; nothing is written
job_usage(c, token, job) ==
    /\ FreeSlot(c)
    /\ IF ~require_auth(token)
       THEN reject(c, 401, "unauthorized (missing/incorrect token)")
       ELSE IF strip(job) = ""
       THEN reject(c, 400, "job_no is required")
       ELSE IF _job_usage(stock, transactions, strip(job)).items = {}
       THEN reject(c, 404, "no usage found for job_no")
       ELSE /\ last' = [status |-> 200, error |-> "", job_no |-> strip(job),
                        total_value |-> _job_usage(stock, transactions, strip(job)).total,
                        items |-> _job_usage(stock, transactions, strip(job)).items]
            /\ UNCHANGED <<stock, transactions, conn, writer, created_qty>>

\* ---- the write lock is held by another request past busy_timeout ----
database_locked(c) ==
    /\ \/ conn[c].pc = "update"
       \/ conn[c].pc = "insert" /\ conn[c].op = "add_item"
    /\ writer # 0
    /\ writer # c
    /\ reject(c, 500, "database is locked")

\* ---- the steps of one request ----
ConnNext(c) ==
    \/ \E r \in CheckoutRequests : checkout(c, r.token, r.item_id, r.qty, r.job_no)
    \/ checkout_update(c)
    \/ checkout_insert(c)
    \/ checkout_commit(c)
    \/ \E r \in ReceiveRequests : receive(c, r.token, r.item_id, r.qty)
    \/ receive_update(c)
    \/ receive_insert(c)
    \/ receive_commit(c)
    \/ \E r \in ReverseRequests : reverse_transaction(c, r.token, r.tx_id)
    \/ reverse_already(c)
    \/ reverse_item(c)
    \/ reverse_update(c)
    \/ reverse_insert(c)
    \/ reverse_commit(c)
    \/ \E r \in AddItemRequests :
          add_item(c, r.token, r.name, r.quantity, r.min_level, r.unit_price,
                   r.supplier, r.reorder_qty)
    \/ add_item_insert(c)
    \/ add_item_commit(c)
    \/ \E r \in UsageRequests : job_usage(c, r.token, r.job_no)

\* requests are served by concurrent threads, each on its own connection
Next == \E c \in Conns : ConnNext(c) \/ database_locked(c)

Spec == Init /\ [][Next]_vars

\* requests executed one at a time: each is served to its end on connection 1
\* before the next one starts
SeqNext == ConnNext(1)

SeqSpec == Init /\ [][SeqNext]_vars

\* ---- error kinds of the specification, as the responses of the handlers ----
Ok == response(200, "")
Unauthorized == response(401, "unauthorized (missing/incorrect token)")
InvalidInput ==
    {response(400, "item_id and quantity must be > 0"),
     response(400, "job_no is required"),
     response(400, "transaction_id must be > 0"),
     response(400, "name is required"),
     response(400, "values cannot be negative")}
NotFound ==
    {response(404, "item not found"),
     response(404, "transaction not found"),
     response(404, "no usage found for job_no")}
InsufficientStock == {response(400, "not enough stock")}
InvalidReversal ==
    {response(400, "cannot reverse a reverse transaction"),
     response(400, "transaction already reversed"),
     response(400, "reversal would make stock negative")}

\* ---- what the properties speak of ----
RECURSIVE SumChange(_, _)
\* the sum of change_qty over the rows of txs whose item_id is item_id
SumChange(txs, item_id) ==
    IF txs = <<>> THEN 0
    ELSE SumChange(Tail(txs), item_id)
         + (IF Head(txs).item_id = item_id THEN Head(txs).change_qty ELSE 0)

Front(txs) == SubSeq(txs, 1, Len(txs) - 1)

Reversals(tx_id) ==
    {k \in DOMAIN transactions :
        transactions[k].action = "reverse" /\ transactions[k].reversed_from = tx_id}

DbUnchanged == stock' = stock /\ transactions' = transactions

\* connection c returns its response in this step
Returns(c) == conn[c].pc # "idle" /\ conn'[c].pc = "idle"

\* ---- the handlers on a database written earlier ----
\* setup() opens the database file it finds.  Its ledger was written by the
\* handlers; the unit_price of an item may have been edited since, which no
\* handler does, so a row's unit_price can differ from the item's.
HistoryPrices == {4, 10}

HistoryRows ==
    {r \in [item_id : 1..MaxItems, change_qty : (-MaxQty..MaxQty) \ {0},
            job_no : {"J1", None}, action : {"checkout", "receive", "reverse"},
            unit_price : HistoryPrices, reversed_from : 0..(MaxTx - 2)] :
        /\ r.action = "checkout" =>
              r.change_qty < 0 /\ r.job_no = "J1" /\ r.reversed_from = NoRef
        /\ r.action = "receive" =>
              r.change_qty > 0 /\ r.job_no = None /\ r.reversed_from = NoRef
        /\ r.action = "reverse" => r.reversed_from # NoRef}

\* every reverse row mirrors an earlier row that no other row reverses
WrittenByHandlers(txs) ==
    \A k \in DOMAIN txs :
        txs[k].action = "reverse" =>
            /\ txs[k].reversed_from < k
            /\ txs[txs[k].reversed_from].action # "reverse"
            /\ txs[k].item_id = txs[txs[k].reversed_from].item_id
            /\ txs[k].change_qty = -txs[txs[k].reversed_from].change_qty
            /\ txs[k].job_no = txs[txs[k].reversed_from].job_no
            /\ txs[k].unit_price = txs[txs[k].reversed_from].unit_price
            /\ \A j \in DOMAIN txs :
                  txs[j].action = "reverse" /\ txs[j].reversed_from = txs[k].reversed_from
                      => j = k

HistoryLedgers ==
    {txs \in UNION {[1..n -> HistoryRows] : n \in 0..(MaxTx - 1)} : WrittenByHandlers(txs)}

HistoryInit ==
    /\ transactions \in HistoryLedgers
    /\ created_qty = [i \in 1..MaxItems |-> MaxTx * MaxQty]
    /\ \E price \in [1..MaxItems -> HistoryPrices] :
          stock = [i \in 1..MaxItems |->
                      [name |-> "A",
                       quantity |-> created_qty[i] + SumChange(transactions, i),
                       min_level |-> 0, unit_price |-> price[i], supplier |-> "",
                       reorder_qty |-> 0]]
    /\ conn = [c \in Conns |-> Idle]
    /\ writer = 0
    /\ last = NoResponse

\* requests executed one at a time; the stock table is full, nothing is added
HistoryNext ==
    \/ \E r \in CheckoutRequests : checkout(1, r.token, r.item_id, r.qty, r.job_no)
    \/ checkout_update(1)
    \/ checkout_insert(1)
    \/ checkout_commit(1)
    \/ \E r \in ReceiveRequests : receive(1, r.token, r.item_id, r.qty)
    \/ receive_update(1)
    \/ receive_insert(1)
    \/ receive_commit(1)
    \/ \E r \in ReverseRequests : reverse_transaction(1, r.token, r.tx_id)
    \/ reverse_already(1)
    \/ reverse_item(1)
    \/ reverse_update(1)
    \/ reverse_insert(1)
    \/ reverse_commit(1)
    \/ \E r \in UsageRequests : job_usage(1, r.token, r.job_no)

HistorySpec == HistoryInit /\ [][HistoryNext]_vars

\* ---- the scenario: item A, quantity 100, checked out for job J1 ----
\* unit_price 10.00, and a unit_price below one cent
ScenarioPrices == {10000, 4}
ScenarioQty == {3, 5}

ScenarioInit ==
    /\ \E unit_price \in ScenarioPrices :
          stock = <<[name |-> "A", quantity |-> 100, min_level |-> 0,
                     unit_price |-> unit_price, supplier |-> "", reorder_qty |-> 0]>>
    /\ created_qty = <<100>>
    /\ transactions = <<>>
    /\ conn = [c \in Conns |-> Idle]
    /\ writer = 0
    /\ last = NoResponse

\* checkouts of item 1 for J1, reversals and the report, one request at a time
ScenarioNext ==
    \/ \E qty \in ScenarioQty : checkout(1, AUTH_TOKEN, 1, qty, "J1")
    \/ checkout_update(1)
    \/ checkout_insert(1)
    \/ checkout_commit(1)
    \/ \E tx_id \in 1..MaxTx : reverse_transaction(1, AUTH_TOKEN, tx_id)
    \/ reverse_already(1)
    \/ reverse_item(1)
    \/ reverse_update(1)
    \/ reverse_insert(1)
    \/ reverse_commit(1)
    \/ job_usage(1, AUTH_TOKEN, "J1")

ScenarioSpec == ScenarioInit /\ [][ScenarioNext]_vars

\* the row this step appends to the ledger
Appends == Len(transactions') = Len(transactions) + 1
NewRow == transactions'[Len(transactions')]

\* ---- C1 ----
\* C1: in every reachable state, under any interleaving of the requests, the
\* stored quantity of every stock item is >= 0.
C1_QuantityNonNegative == \A i \in DOMAIN stock : stock[i].quantity >= 0

\* two checkouts raced on one item and the item stands at zero
C1_Witness ==
    \E i \in DOMAIN stock :
        /\ stock[i].quantity = 0
        /\ Cardinality({k \in DOMAIN transactions :
                            transactions[k].item_id = i
                            /\ transactions[k].action = "checkout"}) >= 2

\* ---- C2 ----
\* C2: with requests executed one at a time, each item's quantity equals the
\* quantity it was created with plus the sum of change_qty over all ledger rows
\* of that item.
C2_QuantityIsCreationPlusLedger ==
    \A i \in DOMAIN stock :
        stock[i].quantity = created_qty[i] + SumChange(transactions, i)

\* two items exist, each with a row of its own, and a reversal was applied
C2_Witness ==
    /\ Len(stock) = 2
    /\ Len(transactions) = MaxTx
    /\ \E k \in DOMAIN transactions : transactions[k].action = "reverse"
    /\ \A i \in DOMAIN stock : \E k \in DOMAIN transactions : transactions[k].item_id = i
    /\ \E i \in DOMAIN stock : stock[i].quantity # created_qty[i]

\* ---- C3 ----
\* C3: no update is lost when ledger operations on one item run concurrently:
\* every operation that appends its row moves the item's quantity from its
\* prior value by exactly that row's change_qty.
C3_NoLostUpdate ==
    [][Len(transactions') = Len(transactions) + 1 =>
          LET row == transactions'[Len(transactions')]
          IN  stock'[row.item_id].quantity
                  = stock[row.item_id].quantity + row.change_qty]_vars

\* ---- C4 ----
\* C4: the quantity update and the row append of a checkout, receive or reverse
\* become visible to other requests in one step: no committed state has a
\* quantity changed without the matching row, nor a row without the quantity
\* write of the request that appended it.
C4_AtomicVisibility ==
    [][/\ \A i \in DOMAIN stock :
              stock'[i] # stock[i] =>
                  /\ Len(transactions') = Len(transactions) + 1
                  /\ transactions'[Len(transactions')].item_id = i
       /\ transactions' # transactions =>
              \E c \in Conns :
                  /\ Returns(c)
                  /\ transactions' = Append(transactions, ledger_row(conn[c]))
                  /\ stock'[conn[c].item_id].quantity = conn[c].new_qty]_vars

\* a request has executed its UPDATE and INSERT but not committed, the
\* committed item still shows the old quantity, and another request reads it
C4_Witness ==
    \E c, d \in Conns :
        /\ c # d
        /\ conn[c].pc = "commit"
        /\ conn[c].op \in {"checkout", "receive", "reverse"}
        /\ stock[conn[c].item_id].quantity # conn[c].new_qty
        /\ conn[d].pc = "update"
        /\ conn[d].item_id = conn[c].item_id

\* ---- C5 ----
\* C5: with requests executed one at a time, a reverse of a transaction that a
\* reversal row already names fails with InvalidReversal and changes neither
\* any item nor the ledger.
C5_SecondReverseRejected ==
    [][\A c \in Conns :
          (/\ Returns(c)
           /\ conn[c].op = "reverse"
           /\ \E k \in DOMAIN transactions :
                  transactions[k].reversed_from = conn[c].tx_id)
          => (last' \in InvalidReversal /\ DbUnchanged)]_vars

\* the first reverse was applied and the second one has just been refused
C5_Witness ==
    /\ last = response(400, "transaction already reversed")
    /\ \E k \in DOMAIN transactions : transactions[k].action = "reverse"

\* ---- C6 ----
\* C6: in every reachable state, also when reverse requests for one
\* transaction id run concurrently, at most one row has reversed_from equal to
\* any given transaction id.
C6_AtMostOneReversal ==
    \A k \in DOMAIN transactions : Cardinality(Reversals(k)) <= 1

\* ---- C7 ----
\* C7: a reverse of a row whose action is reverse fails with InvalidReversal
\* and changes nothing, and the target of every reverse row in the ledger is a
\* checkout or receive row.
C7_NoReversalChains ==
    /\ [](\A k \in DOMAIN transactions :
              transactions[k].action = "reverse" =>
                  /\ transactions[k].reversed_from \in DOMAIN transactions
                  /\ transactions[transactions[k].reversed_from].action
                         \in {"checkout", "receive"})
    /\ [][\A c \in Conns, x \in TxIdInputs :
              (/\ reverse_transaction(c, AUTH_TOKEN, x)
               /\ x \in DOMAIN transactions
               /\ transactions[x].action = "reverse")
              => (last' \in InvalidReversal /\ DbUnchanged)]_vars

\* a reverse row is in the ledger and a reverse of it has just been refused
C7_Witness ==
    /\ last = response(400, "cannot reverse a reverse transaction")
    /\ \E k \in DOMAIN transactions : transactions[k].action = "reverse"

\* ---- C8 ----
\* C8: every reverse row names an existing earlier row in reversed_from, its
\* change_qty is the negation of that row's, and its item_id, job_no and
\* unit_price equal that row's.
C8_ReverseRowMirrorsTarget ==
    \A k \in DOMAIN transactions :
        transactions[k].action = "reverse" =>
            /\ transactions[k].reversed_from \in 1..(k - 1)
            /\ LET t == transactions[transactions[k].reversed_from]
               IN  /\ transactions[k].change_qty = -t.change_qty
                   /\ transactions[k].item_id = t.item_id
                   /\ transactions[k].job_no = t.job_no
                   /\ transactions[k].unit_price = t.unit_price

\* the ledger holds the reversal of a priced checkout made for a job
C8_Witness ==
    \E k \in DOMAIN transactions :
        /\ transactions[k].action = "reverse"
        /\ transactions[k].job_no = "J1"
        /\ transactions[k].unit_price = 10
        /\ transactions[k].change_qty > 0
        /\ transactions[k].reversed_from < k - 1

\* ---- C9 ----
\* C9: with requests executed one at a time, a reverse of the row that the
\* latest checkout or receive appended succeeds and restores the item's
\* quantity to its value before that checkout or receive.
C9_RoundTrip ==
    [][\A c \in Conns :
          (/\ Returns(c)
           /\ conn[c].op = "reverse"
           /\ conn[c].tx_id = Len(transactions))
          => /\ last' = Ok
             /\ Len(transactions') = Len(transactions) + 1
             /\ LET i == transactions[conn[c].tx_id].item_id
                IN  stock'[i].quantity
                        = created_qty[i] + SumChange(Front(transactions), i)]_vars

\* a row, then a checkout or receive of the same item, then the reversal of
\* that second row: the item is back at its quantity after the first row
C9_Witness ==
    /\ last = Ok
    /\ Len(transactions) = MaxTx
    /\ transactions[2].action \in {"checkout", "receive"}
    /\ transactions[2].action # transactions[1].action
    /\ transactions[MaxTx].action = "reverse"
    /\ transactions[MaxTx].reversed_from = 2
    /\ stock[transactions[2].item_id].quantity
           = created_qty[transactions[2].item_id] + transactions[1].change_qty
    /\ transactions[1].item_id = transactions[2].item_id

\* ---- C10 ----
\* C10: with requests executed one at a time, an authorized checkout with a
\* job number that asks for exactly the item's quantity (at least 1) is
\* accepted, succeeds and leaves quantity 0; one that asks for one more than
\* the quantity fails with InsufficientStock and changes neither the item nor
\* the ledger.
C10_CheckoutBoundary ==
    [][/\ \A c \in Conns, r \in CheckoutRequests :
              (/\ checkout(c, r.token, r.item_id, r.qty, r.job_no)
               /\ r.token = AUTH_TOKEN
               /\ r.job_no = "J1"
               /\ r.item_id \in DOMAIN stock
               /\ r.qty >= 1)
              => /\ r.qty = stock[r.item_id].quantity =>
                        (last' = NoResponse /\ conn'[c].pc = "update")
                 /\ r.qty = stock[r.item_id].quantity + 1 =>
                        (last' \in InsufficientStock /\ DbUnchanged)
       /\ \A c \in Conns :
              (/\ Returns(c)
               /\ conn[c].op = "checkout"
               /\ -conn[c].change_qty = stock[conn[c].item_id].quantity)
              => /\ last' = Ok
                 /\ stock'[conn[c].item_id].quantity = 0
                 /\ Len(transactions') = Len(transactions) + 1]_vars

\* a checkout of the whole quantity was applied and the next checkout of one
\* unit has just been refused
C10_Witness ==
    /\ last \in InsufficientStock
    /\ \E k \in DOMAIN transactions :
           /\ transactions[k].action = "checkout"
           /\ stock[transactions[k].item_id].quantity = 0
           /\ created_qty[transactions[k].item_id] = -transactions[k].change_qty
\* ---- C11 ----
\* C11: the unit_price stored on a checkout or receive row is the unit_price
\* the item has when the row is written, and the unit_price stored on a reverse
\* row is the unit_price of the row it reverses, also when the item's price
\* differs from it by then.
C11_PriceSnapshot ==
    [][Appends =>
         /\ NewRow.action \in {"checkout", "receive"} =>
               /\ NewRow.unit_price = stock[NewRow.item_id].unit_price
               /\ NewRow.unit_price = stock'[NewRow.item_id].unit_price
         /\ NewRow.action = "reverse" =>
               NewRow.unit_price = transactions[NewRow.reversed_from].unit_price]_vars

\* a reversal was just committed whose row carries a price the item no longer has
C11_Witness ==
    /\ last = Ok
    /\ transactions # <<>>
    /\ transactions[Len(transactions)].action = "reverse"
    /\ transactions[Len(transactions)].unit_price
         # stock[transactions[Len(transactions)].item_id].unit_price

\* ---- C12 ----
\* the response is the report of GET /job/<job_no>/usage
IsReport(r) == r.status = 200 /\ "items" \in DOMAIN r

\* the ledger rows of a job that count as usage
UsageRows(job_no) ==
    {k \in DOMAIN transactions :
        transactions[k].job_no = job_no /\ transactions[k].action \in {"checkout", "reverse"}}

RECURSIVE NegatedSum(_, _, _, _)
\* minus the sum of change_qty over the usage rows of the job for one item and price
NegatedSum(txs, job_no, item_id, unit_price) ==
    IF txs = <<>> THEN 0
    ELSE NegatedSum(Tail(txs), job_no, item_id, unit_price)
         - (IF /\ Head(txs).job_no = job_no
               /\ Head(txs).action \in {"checkout", "reverse"}
               /\ Head(txs).item_id = item_id
               /\ Head(txs).unit_price = unit_price
            THEN Head(txs).change_qty ELSE 0)

\* one row per (item_id, unit_price) of the job's usage rows, each with the
\* negated sum of its group, and the total the sum of the line totals
ReportGroups(r) ==
    /\ \A k \in UsageRows(r.job_no) :
          \E i \in r.items :
              /\ i.item_id = transactions[k].item_id
              /\ i.unit_price = transactions[k].unit_price
    /\ \A i \in r.items :
          /\ \E k \in UsageRows(r.job_no) :
                /\ i.item_id = transactions[k].item_id
                /\ i.unit_price = transactions[k].unit_price
          /\ \A j \in r.items :
                i.item_id = j.item_id /\ i.unit_price = j.unit_price => i = j
          /\ i.net_qty = NegatedSum(transactions, r.job_no, i.item_id, i.unit_price)
    /\ r.total_value = SUM([i \in r.items |-> i.line_total], r.items)

\* amount (in thousandths) is a whole number of cents, the nearest to exact
RoundedToCent(amount, exact) ==
    /\ amount % 10 = 0
    /\ amount - exact \in -5..5

\* C12 as stated: usage(job_no) returns one row per (item_id, unit_price) of
\* the job's checkout and reverse rows, with net_qty the negated sum of the
\* group's change_qty, line_total exactly net_qty times unit_price and
\* total_value the sum of the line totals.
C12_LineTotalExact ==
    IsReport(last) =>
        /\ ReportGroups(last)
        /\ \A i \in last.items : i.line_total = i.net_qty * i.unit_price

\* C12: usage(job_no) returns one row per (item_id, unit_price) of the job's
\* checkout and reverse rows, with net_qty the negated sum of the group's
\* change_qty, line_total net_qty times unit_price rounded to the cent and
\* total_value the sum of the line totals.
C12_UsageReport ==
    IsReport(last) =>
        /\ ReportGroups(last)
        /\ \A i \in last.items : RoundedToCent(i.line_total, i.net_qty * i.unit_price)

\* a report of two rows, one of them at a price below one cent
C12_Witness ==
    /\ IsReport(last)
    /\ Cardinality(last.items) = 2
    /\ \E i \in last.items : i.unit_price = 4 /\ i.net_qty = 1 /\ i.line_total = 0

\* ---- C13 ----
\* C13: when a job has checkouts of one item at two different prices, the
\* usage report of the job has two rows for that item, one for each price,
\* and does not merge them.
C13_OneRowPerPrice ==
    IsReport(last) =>
        \A k1, k2 \in DOMAIN transactions :
            /\ transactions[k1].action = "checkout"
            /\ transactions[k2].action = "checkout"
            /\ transactions[k1].job_no = last.job_no
            /\ transactions[k2].job_no = last.job_no
            /\ transactions[k1].item_id = transactions[k2].item_id
            /\ transactions[k1].unit_price # transactions[k2].unit_price
            => \A k \in {k1, k2} :
                   Cardinality({i \in last.items :
                                   /\ i.item_id = transactions[k].item_id
                                   /\ i.unit_price = transactions[k].unit_price}) = 1

\* a report with two rows for the same item
C13_Witness ==
    /\ IsReport(last)
    /\ \E i, j \in last.items : i.item_id = j.item_id /\ i.unit_price # j.unit_price

\* ---- C14 ----
\* every checkout of the job has a reversal, and there is at least one
AllReversed(job_no) ==
    /\ \E k \in DOMAIN transactions :
          transactions[k].action = "checkout" /\ transactions[k].job_no = job_no
    /\ \A k \in DOMAIN transactions :
          transactions[k].action = "checkout" /\ transactions[k].job_no = job_no
              => Reversals(k) # {}

\* C14: with requests served one at a time, an authorized usage request for a
\* non-empty job_no is answered NotFound exactly when no ledger row has that
\* job_no; when every checkout of the job has been reversed it is answered
\* with a report whose rows all have net_qty 0 and whose total_value is 0.
C14_NotFoundOnlyWithoutRows ==
    [][\A c \in Conns, r \in UsageRequests :
          (/\ job_usage(c, r.token, r.job_no)
           /\ r.token = AUTH_TOKEN
           /\ strip(r.job_no) # "")
          => /\ last' \in NotFound
                  <=> ~\E k \in DOMAIN transactions :
                          transactions[k].job_no = strip(r.job_no)
             /\ last' \notin NotFound => IsReport(last') /\ last'.job_no = strip(r.job_no)
             /\ AllReversed(strip(r.job_no))
                  => /\ IsReport(last')
                     /\ last'.items # {}
                     /\ \A i \in last'.items : i.net_qty = 0 /\ i.line_total = 0
                     /\ last'.total_value = 0]_vars

\* the report of a job whose only checkout has been reversed
C14_Witness ==
    /\ IsReport(last)
    /\ AllReversed(last.job_no)
    /\ \A i \in last.items : i.net_qty = 0

\* ---- C15 ----
\* the checkout rows of an item for a job
Checkouts(job_no, item_id) ==
    {k \in DOMAIN transactions :
        /\ transactions[k].action = "checkout"
        /\ transactions[k].job_no = job_no
        /\ transactions[k].item_id = item_id}

\* quantity checked out minus the quantity of the checkouts since reversed
NetCheckedOut(job_no, item_id) ==
    SUM([k \in DOMAIN transactions |-> -transactions[k].change_qty],
        Checkouts(job_no, item_id))
    - SUM([k \in DOMAIN transactions |-> -transactions[k].change_qty],
          {k \in Checkouts(job_no, item_id) : Reversals(k) # {}})

\* the report has one row for every item whose checkouts for the job were all
\* at one price, with the net quantity checked out
SingleRowPerItem(r) ==
    \A item_id \in DOMAIN stock :
        /\ Checkouts(r.job_no, item_id) # {}
        /\ \A k \in Checkouts(r.job_no, item_id) :
              transactions[k].unit_price = stock[item_id].unit_price
        => /\ Cardinality({i \in r.items : i.item_id = item_id}) = 1
           /\ \A i \in r.items :
                 i.item_id = item_id
                     => /\ i.unit_price = stock[item_id].unit_price
                        /\ i.net_qty = NetCheckedOut(r.job_no, item_id)

\* the ledger of the scenario after the two checkouts, and after the reversal
\* of the first
ScenarioCheckouts ==
    <<[item_id |-> 1, change_qty |-> -5, job_no |-> "J1", action |-> "checkout",
       unit_price |-> 10000, reversed_from |-> NoRef],
      [item_id |-> 1, change_qty |-> -3, job_no |-> "J1", action |-> "checkout",
       unit_price |-> 10000, reversed_from |-> NoRef]>>
ScenarioReversed ==
    Append(ScenarioCheckouts,
           [item_id |-> 1, change_qty |-> 5, job_no |-> "J1", action |-> "reverse",
            unit_price |-> 10000, reversed_from |-> 1])

\* quantity 92 and usage 8 / 80.00, then quantity 97 and usage 3 / 30.00
ScenarioNumbers ==
    /\ transactions = ScenarioCheckouts
          => /\ stock[1].quantity = 92
             /\ IsReport(last)
                  => /\ \A i \in last.items : i.net_qty = 8 /\ i.line_total = 80000
                     /\ last.total_value = 80000
    /\ transactions = ScenarioReversed
          => /\ stock[1].quantity = 97
             /\ IsReport(last)
                  => /\ \A i \in last.items : i.net_qty = 3 /\ i.line_total = 30000
                     /\ last.total_value = 30000

\* C15 as stated: for a job whose checkouts of an item were all at one price
\* p, the report has a single row for the item, with net_qty the quantity
\* checked out minus the quantity of the reversed checkouts and line_total
\* exactly net_qty * p; item A (10.00, 100) after checkouts of 5 and 3 for J1
\* has quantity 92 and usage 8 / 80.00, and after the reversal of the first
\* checkout quantity 97 and usage 3 / 30.00.
C15_SinglePriceExact ==
    /\ ScenarioNumbers
    /\ IsReport(last) =>
          /\ SingleRowPerItem(last)
          /\ \A i \in last.items : i.line_total = i.net_qty * i.unit_price

\* C15: for a job whose checkouts of an item were all at one price p, the
\* report has a single row for the item, with net_qty the quantity checked out
\* minus the quantity of the reversed checkouts and line_total net_qty * p
\* rounded to the cent; item A (10.00, 100) after checkouts of 5 and 3 for J1
\* has quantity 92 and usage 8 / 80.00, and after the reversal of the first
\* checkout quantity 97 and usage 3 / 30.00.
C15_SinglePrice ==
    /\ ScenarioNumbers
    /\ IsReport(last) =>
          /\ SingleRowPerItem(last)
          /\ \A i \in last.items : RoundedToCent(i.line_total, i.net_qty * i.unit_price)

\* the report after the first checkout of the scenario was reversed
C15_Witness ==
    /\ transactions = ScenarioReversed
    /\ IsReport(last)
    /\ Cardinality(last.items) = 1
    /\ last.total_value = 30000

\* ---- C16 ----
\* the latest step returned an error
IsError(r) == r.status \notin {0, 200, 201}

\* C16: under any interleaving, a step of add_item, checkout, receive or
\* reverse that returns an error changes no stock item and no ledger row, and
\* only a step that returns success changes them, so a request that ends in
\* an error has written nothing; a reversal that would make the quantity
\* negative is answered with an error and the quantity is left as it is.
C16_ErrorChangesNothing ==
    [][/\ IsError(last') => DbUnchanged
       /\ ~DbUnchanged => last' \in {Ok, response(201, "")}
       /\ \A c \in Conns :
             /\ conn[c].pc = "item"
             /\ conn'[c] # conn[c]
             /\ conn[c].item_id \in DOMAIN stock
             /\ stock[conn[c].item_id].quantity + conn[c].change_qty < 0
             => /\ last' = response(400, "reversal would make stock negative")
                /\ conn'[c] = Idle
                /\ DbUnchanged]_vars

\* a reversal was just refused because the quantity would go negative
C16_Witness ==
    /\ last = response(400, "reversal would make stock negative")
    /\ \E k \in DOMAIN transactions :
          /\ transactions[k].action = "receive"
          /\ Reversals(k) = {}
          /\ stock[transactions[k].item_id].quantity < transactions[k].change_qty

\* ---- C17 ----
\* the outcome the preconditions of reverse give for an id that names a row:
\* a reversal of a reversal, a second reversal, a negative quantity, success
ReverseOfExisting(tx_id) ==
    IF transactions[tx_id].action = "reverse" THEN InvalidReversal
    ELSE IF Reversals(tx_id) # {} THEN InvalidReversal
    ELSE IF stock[transactions[tx_id].item_id].quantity
                - transactions[tx_id].change_qty < 0 THEN InvalidReversal
    ELSE {Ok}

\* NotFound for every id that names no row
ReverseOutcomeAsStated(tx_id) ==
    IF tx_id \notin DOMAIN transactions THEN NotFound ELSE ReverseOfExisting(tx_id)

\* InvalidInput for an id that is not positive, NotFound for any other id
\* that names no row
ReverseOutcome(tx_id) ==
    IF tx_id <= 0 THEN InvalidInput
    ELSE IF tx_id \notin DOMAIN transactions THEN NotFound
    ELSE ReverseOfExisting(tx_id)

\* C17 as stated: with requests served one at a time, an authorized reverse
\* fails only with NotFound or InvalidReversal, by the first failing check in
\* this order: NotFound when no transaction has the id, whatever the id;
\* InvalidReversal when the transaction is a reverse; InvalidReversal when a
\* reverse row for it exists; InvalidReversal when the quantity minus the
\* original change_qty is negative; otherwise it succeeds.
C17_ReverseFailuresAsStated ==
    [][/\ \A c \in Conns, r \in ReverseRequests :
             reverse_transaction(c, r.token, r.tx_id) /\ r.token = AUTH_TOKEN
             => IF last' = NoResponse
                THEN conn'[c].tx_id = r.tx_id
                ELSE last' \in ReverseOutcomeAsStated(r.tx_id)
       /\ \A c \in Conns :
             Returns(c) /\ conn[c].op = "reverse"
             => last' \in ReverseOutcomeAsStated(conn[c].tx_id)]_vars

\* C17: with requests served one at a time, an authorized reverse fails with
\* InvalidInput when the id is not positive, and otherwise only with NotFound
\* or InvalidReversal, by the first failing check in this order: NotFound when
\* no transaction has the id; InvalidReversal when the transaction is a
\* reverse; InvalidReversal when a reverse row for it exists; InvalidReversal
\* when the quantity minus the original change_qty is negative; otherwise it
\* succeeds.
C17_ReverseFailures ==
    [][/\ \A c \in Conns, r \in ReverseRequests :
             reverse_transaction(c, r.token, r.tx_id) /\ r.token = AUTH_TOKEN
             => IF last' = NoResponse
                THEN /\ conn'[c].tx_id = r.tx_id
                     /\ r.tx_id \in DOMAIN transactions
                     /\ transactions[r.tx_id].action # "reverse"
                ELSE last' \in ReverseOutcome(r.tx_id)
       /\ \A c \in Conns :
             Returns(c) /\ conn[c].op = "reverse"
             => /\ last' \in ReverseOutcome(conn[c].tx_id)
                /\ last' = Ok => Appends /\ NewRow.reversed_from = conn[c].tx_id]_vars

\* a reverse was just refused for an id that is not positive
C17_Witness == last = response(400, "transaction_id must be > 0")

\* ---- C18 ----
\* a job_no that is empty once the blanks around it are removed
Blank == {"", " "}

\* NotFound for every item_id that names no item
CheckoutOutcomeAsStated(r) ==
    IF r.qty <= 0 \/ r.job_no \in Blank THEN InvalidInput
    ELSE IF r.item_id \notin DOMAIN stock THEN NotFound
    ELSE IF r.qty > stock[r.item_id].quantity THEN InsufficientStock
    ELSE {Ok}

\* InvalidInput also for an item_id that is not positive
CheckoutOutcome(r) ==
    IF r.item_id <= 0 \/ r.qty <= 0 \/ r.job_no \in Blank THEN InvalidInput
    ELSE IF r.item_id \notin DOMAIN stock THEN NotFound
    ELSE IF r.qty > stock[r.item_id].quantity THEN InsufficientStock
    ELSE {Ok}

\* C18 as stated: with requests served one at a time, an authorized checkout
\* fails with InvalidInput exactly when qty <= 0 or job_no is empty, otherwise
\* with NotFound exactly when item_id names no item, otherwise with
\* InsufficientStock exactly when qty exceeds the item's quantity, and
\* succeeds in all remaining cases.
C18_CheckoutFailuresAsStated ==
    [][/\ \A c \in Conns, r \in CheckoutRequests :
             checkout(c, r.token, r.item_id, r.qty, r.job_no) /\ r.token = AUTH_TOKEN
             => IF last' = NoResponse
                THEN CheckoutOutcomeAsStated(r) = {Ok}
                ELSE last' \in CheckoutOutcomeAsStated(r)
       /\ \A c \in Conns : Returns(c) /\ conn[c].op = "checkout" => last' = Ok]_vars

\* C18: with requests served one at a time, an authorized checkout fails with
\* InvalidInput exactly when item_id <= 0 or qty <= 0 or job_no is empty,
\* otherwise with NotFound exactly when item_id names no item, otherwise with
\* InsufficientStock exactly when qty exceeds the item's quantity, and
\* succeeds in all remaining cases.
C18_CheckoutFailures ==
    [][/\ \A c \in Conns, r \in CheckoutRequests :
             checkout(c, r.token, r.item_id, r.qty, r.job_no) /\ r.token = AUTH_TOKEN
             => IF last' = NoResponse
                THEN /\ CheckoutOutcome(r) = {Ok}
                     /\ conn'[c].op = "checkout"
                     /\ conn'[c].item_id = r.item_id
                     /\ conn'[c].change_qty = -r.qty
                ELSE last' \in CheckoutOutcome(r)
       /\ \A c \in Conns :
             Returns(c) /\ conn[c].op = "checkout"
             => /\ last' = Ok
                /\ Appends
                /\ NewRow.action = "checkout"
                /\ NewRow.item_id = conn[c].item_id]_vars

\* a checkout was just refused for an item_id that is not positive, and a
\* checkout of an item went through before
C18_Witness ==
    /\ last = response(400, "item_id and quantity must be > 0")
    /\ \E k \in DOMAIN transactions : transactions[k].action = "checkout"

\* ---- C19 ----
\* item i is as it was, but for its quantity
SameButQuantity(i) == stock'[i] = [stock[i] EXCEPT !.quantity = stock'[i].quantity]

\* C19: under any interleaving, no step removes an item or changes an item's
\* name, min_level, unit_price, supplier or reorder_qty; a successful
\* checkout, receive or reverse changes nothing in the stock table but the
\* quantity of the item its ledger row names, and every other step leaves all
\* quantities as they are.
C19_OnlyTargetQuantity ==
    [][/\ Len(stock') >= Len(stock)
       /\ \A i \in DOMAIN stock : SameButQuantity(i)
       /\ \A c \in Conns :
             /\ Returns(c)
             /\ conn[c].op \in {"checkout", "receive", "reverse"}
             /\ last' = Ok
             => /\ Len(stock') = Len(stock)
                /\ \A i \in DOMAIN stock : i # conn[c].item_id => stock'[i] = stock[i]
                /\ Appends
                /\ NewRow.item_id = conn[c].item_id
       /\ \A i \in DOMAIN stock :
             stock'[i].quantity # stock[i].quantity
             => /\ last' = Ok
                /\ Appends
                /\ NewRow.item_id = i]_vars

\* a checkout, receive or reverse just changed the quantity of one of two items
C19_Witness ==
    /\ last = Ok
    /\ Len(stock) = 2
    /\ transactions # <<>>
    /\ stock[transactions[Len(transactions)].item_id].quantity
         # created_qty[transactions[Len(transactions)].item_id]

\* ---- C20 ----
\* C20: under any interleaving, a step keeps every ledger row as it is and
\* removes none; every successful checkout, receive or reverse appends exactly
\* one row, whose id is greater than every id already in the ledger; no other
\* step (add_item, a report, an error) appends a row.
C20_AppendOnly ==
    [][/\ Len(transactions') \in {Len(transactions), Len(transactions) + 1}
       /\ \A k \in DOMAIN transactions : transactions'[k] = transactions[k]
       /\ \A c \in Conns :
             /\ Returns(c)
             /\ conn[c].op \in {"checkout", "receive", "reverse"}
             /\ last' = Ok
             => /\ Appends
                /\ NewRow.action = conn[c].op
                /\ \A k \in DOMAIN transactions : k < Len(transactions')
       /\ Appends
             => /\ last' = Ok
                /\ \E c \in Conns :
                      Returns(c) /\ conn[c].op \in {"checkout", "receive", "reverse"}
       /\ last' = response(201, "") \/ IsReport(last') \/ IsError(last')
             => transactions' = transactions]_vars

\* a row was just appended behind two earlier rows, after an item was added
\* to the stock table between them
C20_Witness ==
    /\ last = Ok
    /\ Len(transactions) = 3
    /\ Len(stock) = 2
    /\ transactions[3].item_id = 2
    /\ transactions[1].item_id = 1

\* ---- C21 ----
\* the step refuses the request as unauthorized and touches nothing
Refused(c) ==
    /\ last' = Unauthorized
    /\ conn'[c] = Idle
    /\ DbUnchanged

\* every body over the inputs, also those with several invalid fields
AddItemBodies ==
    [name : NameInputs, quantity : StockInputs, min_level : LevelInputs,
     unit_price : PriceInputs, supplier : SupplierInputs, reorder_qty : ReorderInputs]

\* the requests whose token is missing or wrong
RejectedToken(requests) == {r \in requests : r.token # AUTH_TOKEN}

\* C21: under any interleaving, an add_item, checkout, receive or reverse
\* request whose token is not the configured one is answered Unauthorized in
\* its first step, whatever its other inputs, and leaves every stock item and
\* the ledger as they are: a step that is anything else is not a step of such
\* a request.
C21_UnauthorizedChangesNothing ==
    [][\A c \in Conns :
          FreeSlot(c) /\ ~Refused(c)
          => /\ \A token \in Tokens \ {AUTH_TOKEN}, r \in AddItemBodies :
                   ~add_item(c, token, r.name, r.quantity, r.min_level, r.unit_price,
                             r.supplier, r.reorder_qty)
             /\ \A r \in RejectedToken(CheckoutRequests) :
                   ~checkout(c, r.token, r.item_id, r.qty, r.job_no)
             /\ \A r \in RejectedToken(ReceiveRequests) :
                   ~receive(c, r.token, r.item_id, r.qty)
             /\ \A r \in RejectedToken(ReverseRequests) :
                   ~reverse_transaction(c, r.token, r.tx_id)]_vars

\* a request was just refused as unauthorized in a state where an authorized
\* checkout and an authorized reverse would both go through
C21_Witness ==
    /\ last = Unauthorized
    /\ \E k \in DOMAIN transactions :
          /\ transactions[k].action = "receive"
          /\ Reversals(k) = {}
          /\ stock[transactions[k].item_id].quantity >= transactions[k].change_qty
    /\ Len(transactions) < MaxTx

\* ---- C22 ----
\* the body has an empty name (blanks do not count) or a negative number
Rejected(r) ==
    \/ r.name \in Blank
    \/ r.quantity < 0
    \/ r.min_level < 0
    \/ r.unit_price < 0
    \/ r.reorder_qty < 0

\* the string without the blanks around it
Trimmed(s) == CASE s = " " -> "" [] s = " A" -> "A" [] OTHER -> s

\* an invalid body is refused and nothing is added; a valid one goes on to
\* the insert with the numbers of the body
Validated(c, r) ==
    IF Rejected(r)
    THEN last' \in InvalidInput /\ conn'[c] = Idle /\ DbUnchanged
    ELSE /\ last' = NoResponse
         /\ DbUnchanged
         /\ conn'[c].op = "add_item"
         /\ conn'[c].new_qty = r.quantity
         /\ conn'[c].min_level = r.min_level
         /\ conn'[c].unit_price = r.unit_price
         /\ conn'[c].reorder_qty = r.reorder_qty

\* the request ends with one more item, which has a new id and the values the
\* request carries; the other items and the ledger are as they were
Added(c) ==
    /\ last' = response(201, "")
    /\ Len(stock') = Len(stock) + 1
    /\ \A i \in DOMAIN stock : stock'[i] = stock[i]
    /\ stock'[Len(stock')] =
          [name |-> conn[c].name, quantity |-> conn[c].new_qty,
           min_level |-> conn[c].min_level, unit_price |-> conn[c].unit_price,
           supplier |-> conn[c].supplier, reorder_qty |-> conn[c].reorder_qty]
    /\ transactions' = transactions

\* the first step of an authorized create with body r
Create(c, r) ==
    add_item(c, AUTH_TOKEN, r.name, r.quantity, r.min_level, r.unit_price,
             r.supplier, r.reorder_qty)

\* C22 as stated: with requests served one at a time, an authorized create
\* with an empty name or a negative quantity, min_level, unit_price or
\* reorder_qty is refused with InvalidInput and adds nothing; any other adds
\* exactly one item, with a new id and the field values as given, changes no
\* existing item and appends no ledger row.
C22_CreateAsGiven ==
    [][\A c \in Conns :
          /\ FreeSlot(c) =>
                \A r \in AddItemBodies :
                    Create(c, r)
                    => /\ Validated(c, r)
                       /\ ~Rejected(r) =>
                             conn'[c].name = r.name /\ conn'[c].supplier = r.supplier
          /\ Returns(c) /\ conn[c].op = "add_item" => Added(c)]_vars

\* C22: with requests served one at a time, an authorized create with a name
\* that is empty once trimmed or a negative quantity, min_level, unit_price or
\* reorder_qty is refused with InvalidInput and adds nothing; any other adds
\* exactly one item, with a new id, the name and supplier trimmed and the
\* numbers as given, changes no existing item and appends no ledger row.
C22_Create ==
    [][\A c \in Conns :
          /\ FreeSlot(c) =>
                \A r \in AddItemBodies :
                    Create(c, r)
                    => /\ Validated(c, r)
                       /\ ~Rejected(r) =>
                             /\ conn'[c].name = Trimmed(r.name)
                             /\ conn'[c].supplier = Trimmed(r.supplier)
          /\ Returns(c) /\ conn[c].op = "add_item" => Added(c)]_vars

\* a second item was just added, with quantity 1, next to an item that has a
\* ledger row
C22_Witness ==
    /\ last = response(201, "")
    /\ Len(stock) = 2
    /\ stock[2].quantity = 1
    /\ \E k \in DOMAIN transactions : transactions[k].item_id = 1

\* ---- C23 ----
\* C23: in every reachable state, under any interleaving, the item_id of every
\* ledger row names an item of the stock table, and no reverse is refused
\* because the item of its transaction no longer exists.
C23_RowsNameItems ==
    /\ \A k \in DOMAIN transactions : transactions[k].item_id \in DOMAIN stock
    /\ last # response(400, "item for this transaction no longer exists")

\* a reversal was just committed, after its item was looked up, with two items
\* in the stock table
C23_Witness ==
    /\ last = Ok
    /\ Len(stock) = 2
    /\ transactions # <<>>
    /\ transactions[Len(transactions)].action = "reverse"
    /\ transactions[Len(transactions)].item_id = 2

\* ---- C24 ----
\* reverse row k of a job is paired with a checkout row of the same job, item
\* and price and the same magnitude, which no other row reverses
PairedWithCheckout(k) ==
    /\ transactions[k].reversed_from \in 1..(k - 1)
    /\ transactions[transactions[k].reversed_from].action = "checkout"
    /\ transactions[transactions[k].reversed_from].job_no = transactions[k].job_no
    /\ transactions[transactions[k].reversed_from].item_id = transactions[k].item_id
    /\ transactions[transactions[k].reversed_from].unit_price = transactions[k].unit_price
    /\ transactions[transactions[k].reversed_from].change_qty = -transactions[k].change_qty
    /\ Reversals(transactions[k].reversed_from) = {k}

\* C24: with requests served one at a time, every row of the usage report of
\* every job has net_qty >= 0, and every reverse row that counts for a job is
\* paired with a checkout row of its own of the same job, item, price and
\* magnitude.
C24_NetQtyNonNegative ==
    /\ \A job_no \in {strip(j) : j \in JobInputs} \ {""} :
          \A i \in _job_usage(stock, transactions, job_no).items : i.net_qty >= 0
    /\ IsReport(last) => \A i \in last.items : i.net_qty >= 0
    /\ \A k \in DOMAIN transactions :
          transactions[k].action = "reverse" /\ transactions[k].job_no # None
              => PairedWithCheckout(k)

\* the report of a job with one checkout reversed and one that stands
C24_Witness ==
    /\ IsReport(last)
    /\ \E i \in last.items : i.net_qty = 1
    /\ \E k \in DOMAIN transactions :
          /\ transactions[k].action = "reverse"
          /\ transactions[k].job_no = last.job_no

\* ---- C25 ----
\* the row is a checkout or receive that no row reverses
Unreversed(tx_id, action) ==
    /\ tx_id \in DOMAIN transactions
    /\ transactions[tx_id].action = action
    /\ Reversals(tx_id) = {}

\* C25: with requests served one at a time, an authorized reverse of a
\* checkout that has not been reversed is never refused and ends in success,
\* putting the quantity checked out back; a reverse of a receive that has not
\* been reversed is refused as driving stock negative exactly when the item's
\* quantity is below the quantity received.
C25_CheckoutAlwaysReversible ==
    [][\A c \in Conns :
          /\ \A tx_id \in TxIdInputs :
                /\ FreeSlot(c)
                /\ reverse_transaction(c, AUTH_TOKEN, tx_id)
                /\ \/ Unreversed(tx_id, "checkout")
                   \/ Unreversed(tx_id, "receive")
                => last' = NoResponse /\ conn'[c].tx_id = tx_id
          /\ Returns(c) /\ conn[c].op = "reverse" /\ Unreversed(conn[c].tx_id, "checkout")
                => /\ last' = Ok
                   /\ stock'[conn[c].item_id].quantity =
                         stock[conn[c].item_id].quantity
                             - transactions[conn[c].tx_id].change_qty
          /\ Returns(c) /\ conn[c].op = "reverse" /\ Unreversed(conn[c].tx_id, "receive")
                => IF stock[conn[c].item_id].quantity
                          < transactions[conn[c].tx_id].change_qty
                   THEN /\ last' = response(400, "reversal would make stock negative")
                        /\ DbUnchanged
                   ELSE last' = Ok]_vars

\* a checkout was just reversed, after a receive into its item since the
\* checkout
C25_Witness ==
    /\ last = Ok
    /\ Len(transactions) = 3
    /\ transactions[1].action = "checkout"
    /\ transactions[2].action = "receive"
    /\ transactions[2].item_id = transactions[1].item_id
    /\ transactions[3].action = "reverse"
    /\ transactions[3].reversed_from = 1

====
